---- MODULE Spec2Model ----
(***************************************************************************)
(* A model of the BSW CP-ABE scheme of rabe (src/schemes/bsw/mod.rs) and   *)
(* of its secret-sharing engine (src/utils/secretsharing/mod.rs).          *)
(*                                                                         *)
(* Scalars are elements of a small prime field Fr.  Elements of G1, G2 and *)
(* GT are written by their discrete logarithm to fixed generators P1, P2   *)
(* and e(P1, P2), so that the group law is addition of logarithms, scalar  *)
(* multiplication and GT exponentiation are multiplication, and the        *)
(* pairing of two elements is the product of their logarithms.             *)
(*                                                                         *)
(* A JSON policy node is a record whose fields are the keys present in the *)
(* object ("ATT", "AND", "OR"); JNull is the JSON null value, which like   *)
(* an object without any of the three keys indexes to null on all of them. *)
(***************************************************************************)
EXTENDS Integers, Sequences, FiniteSets, TLC

VARIABLES
    stage,      \* position of the run within the specification at hand
    attrs,      \* the attribute list given to prune / keygen
    attrs2,     \* the subset given to delegate, or the second user's attribute list
    plaintext,  \* the payload given to encrypt
    policy,     \* the policy text given to prune / sharing / encrypt
    pruned,     \* result of calc_pruned_str
    secret,     \* the secret handed to gen_shares_str / gen_shares
    _k,         \* the threshold handed to gen_shares
    _n,         \* the number of shares asked of gen_shares
    shares,     \* result of gen_shares_str
    coeffs,     \* result of calc_coefficients_str
    recovered,  \* the sum decrypt's matching forms from shares and coefficients
    pk,         \* CpAbePublicKey returned by setup
    msk,        \* CpAbeMasterKey returned by setup
    ct,         \* result of encrypt, with the session element it sampled
    sk,         \* result of keygen
    sk2,        \* result of delegate, or of the second user's keygen
    skm,        \* a key assembled from the components of sk and sk2
    out,        \* result of decrypt under sk
    out2        \* result of decrypt under sk2

vars == <<stage, attrs, attrs2, plaintext, policy, pruned, secret, _k, _n, shares, coeffs,
          recovered, pk, msk, ct, sk, sk2, skm, out, out2>>

-----------------------------------------------------------------------------
(* Bounds of the model *)

\* a policy tree has at most MaxNodes nodes (pruning specification)
MaxNodes == 5
\* an attribute list has at most MaxAttrs entries
MaxAttrs == 2

\* a policy tree given to the sharing engine has at most MaxShareNodes nodes
MaxShareNodes == 4
\* Fr::random returns one of 0 .. MaxRand
MaxRand == 2

\* order of the scalar field (a small prime standing for the order of bn::Fr)
FrOrder == 5

\* a policy tree given to encrypt has at most MaxAbeNodes nodes
MaxAbeNodes == 3
\* the subset given to delegate, and the list of each of two colluding users, has
\* at most MaxSubset entries
MaxSubset == 1
\* G1::random and G2::random return the generator times one of 0 .. MaxGenLog
MaxGenLog == 1
MaxDelegations == 2
MaxN == 3
MaxKids == 2

Names == {"A", "B", "C"}
\* the attribute names of the scheme specifications
AbeNames == {"A", "B"}

-----------------------------------------------------------------------------
(* Option values and panics *)

None == [tag |-> "None"]
Some(v) == [tag |-> "Some", val |-> v]
\* a failed unwrap(): the call does not return
Panic == [tag |-> "Panic"]
\* placeholder of a variable no operation has written yet
Unset == [tag |-> "Unset"]

IsSome(o) == o.tag = "Some"

-----------------------------------------------------------------------------
(* bn::Fr *)

Fr == 0 .. (FrOrder - 1)

FrAdd(a, b) == (a + b) % FrOrder
FrSub(a, b) == (a + FrOrder - b) % FrOrder
FrMul(a, b) == (a * b) % FrOrder
FrNeg(a) == (FrOrder - a) % FrOrder

\* Fr::inverse: None for zero
FrInverse(a) ==
    IF a = 0 THEN None ELSE Some(CHOOSE b \in Fr : (a * b) % FrOrder = 1)

RECURSIVE FrPow(_, _)
\* Fr::pow, square-and-multiply from one: x^0 = 1 also for x = 0
FrPow(x, e) == IF e = 0 THEN 1 ELSE FrMul(x, FrPow(x, e - 1))

usize_to_fr(i) == i % FrOrder

-----------------------------------------------------------------------------
(* JSON policy values *)

POLICY_OR == "OR"
POLICY_AND == "AND"
POLICY_ATT == "ATT"

JNull == [NULL |-> TRUE]
\* the value of a JSON number, which is not a string
JNumber == "#7"

IsNull(json) == "NULL" \in DOMAIN json
\* _json[key].is_array()
is_array(json, key) == key \in DOMAIN json /\ key # POLICY_ATT
\* _json[key] != Value::Null
not_null(json, key) == key \in DOMAIN json
\* Value::as_str
as_str(v) == IF v = JNumber THEN None ELSE Some(v)

RECURSIVE TreesOfSize(_, _), Forests(_, _)
\* the JSON values of exactly n nodes
TreesOfSize(n, names) ==
    IF n = 1
    THEN {[ATT |-> a] : a \in names \cup {JNumber}} \cup {JNull}
         \cup {[AND |-> <<>>], [OR |-> <<>>]}
    ELSE {[AND |-> f] : f \in Forests(n - 1, names)}
         \cup {[OR |-> f] : f \in Forests(n - 1, names)}
\* the non-empty sequences of JSON values of m nodes in total
Forests(m, names) ==
    UNION {{<<t>> \o r : t \in TreesOfSize(k, names),
                         r \in IF k = m THEN {<<>>} ELSE Forests(m - k, names)} : k \in 1 .. m}

Trees(n, names) == UNION {TreesOfSize(k, names) : k \in 1 .. n}

\* policy texts: the empty string, a text that is not JSON, the text of a JSON value
EmptyText == [kind |-> "empty"]
GarbageText == [kind |-> "garbage"]
JsonText(json) == [kind |-> "json", json |-> json]

\* utils::tools::string_to_json
string_to_json(text) == IF text.kind = "json" THEN Some(text.json) ELSE None

RECURSIVE SeqsUpTo(_, _)
SeqsUpTo(S, n) ==
    IF n = 0 THEN {<<>>}
    ELSE SeqsUpTo(S, n - 1) \cup {Append(q, x) : q \in {p \in SeqsUpTo(S, n - 1) : Len(p) = n - 1}, x \in S}

AttrLists == SeqsUpTo(Names, MaxAttrs)

\* utils::tools::contains
contains(attr, s) == \E i \in 1 .. Len(attr) : attr[i] = s

-----------------------------------------------------------------------------
(* required_attributes: the pruning pass *)

RECURSIVE required_attributes(_, _), or_loop(_, _, _), and_loop(_, _, _, _, _)

leaf_negated(attr, json) ==
    LET s == as_str(json[POLICY_ATT]) IN
    IF ~IsSome(s) THEN None
    ELSE IF ~contains(attr, s.val) THEN Some([match |-> TRUE, list |-> <<s.val>>])
    ELSE Some([match |-> FALSE, list |-> <<>>])

\* the leaf branch
required_leaf(attr, json) ==
    LET s == as_str(json[POLICY_ATT]) IN
    IF ~IsSome(s) THEN None
    ELSE IF contains(attr, s.val) THEN Some([match |-> TRUE, list |-> <<s.val>>])
    ELSE Some([match |-> FALSE, list |-> <<>>])

or_loop_all(attr, items, i) ==
    IF i > Len(items) THEN Some([match |-> FALSE, list |-> <<>>])
    ELSE LET r == required_attributes(attr, items[i])
             rest == or_loop(attr, items, i + 1) IN
         IF ~IsSome(r) \/ ~IsSome(rest) THEN Panic
         ELSE Some([match |-> r.val.match \/ rest.val.match,
                    list |-> r.val.list \o rest.val.list])

\* the loop of the OR branch from child i on; no child before i was satisfied
or_loop(attr, items, i) ==
    IF i > Len(items) THEN Some([match |-> FALSE, list |-> <<>>])
    ELSE LET r == required_attributes(attr, items[i]) IN
         IF ~IsSome(r) THEN Panic
         ELSE IF r.val.match THEN Some([match |-> TRUE, list |-> r.val.list])
         ELSE or_loop(attr, items, i + 1)

and_loop_keep(attr, items, i, match, list) ==
    IF i > Len(items) THEN Some([match |-> match, list |-> list])
    ELSE LET r == required_attributes(attr, items[i]) IN
         IF ~IsSome(r) THEN Panic
         ELSE and_loop(attr, items, i + 1, match /\ r.val.match, list \o r.val.list)

\* the loop of the AND branch from child i on, and the reset after it
and_loop(attr, items, i, match, list) ==
    IF i > Len(items) THEN Some([match |-> match, list |-> IF match THEN list ELSE <<>>])
    ELSE LET r == required_attributes(attr, items[i]) IN
         IF ~IsSome(r) THEN Panic
         ELSE LET m == match /\ r.val.match IN
              and_loop(attr, items, i + 1, m, IF m THEN list \o r.val.list ELSE list)

required_attributes(attr, json) ==
    IF IsNull(json) THEN None
    ELSE IF is_array(json, POLICY_OR) THEN
        IF Len(json[POLICY_OR]) >= 2 THEN or_loop(attr, json[POLICY_OR], 1) ELSE None
    ELSE IF is_array(json, POLICY_AND) THEN
        IF Len(json[POLICY_AND]) >= 2
        THEN and_loop(attr, json[POLICY_AND], 1, TRUE, <<>>)
        ELSE None
    ELSE IF not_null(json, POLICY_ATT) THEN required_leaf(attr, json)
    ELSE None

calc_pruned_str(attr, text) ==
    LET j == string_to_json(text) IN
    IF ~IsSome(j) THEN None ELSE required_attributes(attr, j.val)

-----------------------------------------------------------------------------
(* Lagrange coefficients *)

RECURSIVE lagrange_product(_, _, _)
\* the inner loop of recover_coefficients for the point xi, from index j on
lagrange_product(list, xi, j) ==
    IF j > Len(list) THEN 1
    ELSE IF xi # list[j]
         THEN FrMul(FrMul(FrSub(0, list[j]), FrInverse(FrSub(xi, list[j])).val),
                    lagrange_product(list, xi, j + 1))
         ELSE lagrange_product(list, xi, j + 1)

recover_coefficients(list) ==
    [i \in 1 .. Len(list) |-> lagrange_product(list, list[i], 1)]

\* the vector 1, 2, ..., len the AND branch builds; one entry when len = 0
and_points(len) == [i \in 1 .. (IF len = 0 THEN 1 ELSE len) |-> i % FrOrder]

RECURSIVE calc_coefficients(_, _), coeff_loop(_, _, _, _)

\* the child loop of an inner node: child i gets coeff * this_coeff[pos(i)]
coeff_loop(items, childcoeff, i, result) ==
    IF i > Len(items) THEN Some(result)
    ELSE LET r == calc_coefficients(items[i], childcoeff[i]) IN
         IF ~IsSome(r) THEN None
         ELSE coeff_loop(items, childcoeff, i + 1, result \o r.val)

and_coeff_zero_based(coeff, len) ==
    LET this == recover_coefficients([i \in 1 .. len |-> (i - 1) % FrOrder]) IN
    [i \in 1 .. len |-> FrMul(coeff, this[i])]

\* coeff * _this_coeff[_i] for the children of an AND node
and_coeff(coeff, len) ==
    LET this == recover_coefficients(and_points(len)) IN
    [i \in 1 .. len |-> FrMul(coeff, this[i])]

\* coeff * _this_coeff[0] for the children of an OR node
or_coeff(coeff, len) ==
    LET this == recover_coefficients(<<1>>) IN
    [i \in 1 .. len |-> FrMul(coeff, this[1])]

calc_coefficients(json, coeff) ==
    IF not_null(json, POLICY_ATT) THEN
        LET s == as_str(json[POLICY_ATT]) IN
        IF IsSome(s) THEN Some(<<[name |-> s.val, val |-> coeff]>>) ELSE None
    ELSE IF is_array(json, POLICY_AND) THEN
        coeff_loop(json[POLICY_AND], and_coeff(coeff, Len(json[POLICY_AND])), 1, <<>>)
    ELSE IF is_array(json, POLICY_OR) THEN
        coeff_loop(json[POLICY_OR], or_coeff(coeff, Len(json[POLICY_OR])), 1, <<>>)
    ELSE None

calc_coefficients_str(text) ==
    LET j == string_to_json(text) IN
    IF ~IsSome(j) THEN None ELSE calc_coefficients(j.val, 1)

-----------------------------------------------------------------------------
(* Sharing *)

\* the values Fr::random may return in the model
Rand == {x \in Fr : x <= MaxRand}

RECURSIVE polynomial_from(_, _, _)
polynomial_from(coeff, x, i) ==
    IF i > Len(coeff) THEN 0
    ELSE FrAdd(FrMul(coeff[i], FrPow(x, usize_to_fr(i - 1))), polynomial_from(coeff, x, i + 1))

\* the sum of coeff[i] * x^i
polynomial(coeff, x) == polynomial_from(coeff, x, 1)

\* the coefficient vectors gen_shares may draw: the secret, then k - 1 random scalars
poly_coefficients(sec, k) ==
    IF k = 0 THEN {<<>>}
    ELSE {<<sec>> \o r : r \in [1 .. (k - 1) -> Rand]}

\* the share vectors gen_shares may return: p(0), p(1), ..., p(n), or nothing when k > n
gen_shares(sec, k, n) ==
    IF k <= n
    THEN {[i \in 1 .. (n + 1) |-> polynomial(a, usize_to_fr(i - 1))] : a \in poly_coefficients(sec, k)}
    ELSE {<<>>}

RECURSIVE gen_shares_json(_, _), share_loop(_, _, _)

\* the results of the child loop from child i on, for the share vector shs
share_loop(shs, items, i) ==
    IF i > Len(items) THEN {Some(<<>>)}
    ELSE {IF IsSome(r) /\ IsSome(rest) THEN Some(r.val \o rest.val) ELSE None :
             r \in gen_shares_json(shs[i + 1], items[i]),
             rest \in share_loop(shs, items, i + 1)}

\* the results gen_shares_json may return
gen_shares_json(sec, json) ==
    IF not_null(json, POLICY_ATT) THEN
        LET s == as_str(json[POLICY_ATT]) IN
        {IF IsSome(s) THEN Some(<<[name |-> s.val, val |-> sec]>>) ELSE None}
    ELSE IF is_array(json, POLICY_OR) THEN
        UNION {share_loop(shs, json[POLICY_OR], 1) :
                  shs \in gen_shares(sec, 1, Len(json[POLICY_OR]))}
    ELSE IF is_array(json, POLICY_AND) THEN
        UNION {share_loop(shs, json[POLICY_AND], 1) :
                  shs \in gen_shares(sec, Len(json[POLICY_AND]), Len(json[POLICY_AND]))}
    ELSE UNION {share_loop(shs, <<>>, 1) : shs \in gen_shares(sec, 0, 0)}

gen_shares_str(sec, text) ==
    LET j == string_to_json(text) IN
    IF ~IsSome(j) THEN {None} ELSE gen_shares_json(sec, j.val)

\* the branch each walker takes at a node, by the order of its tests
KIND_LEAF == "leaf"
KIND_NONE == "none"
gen_shares_kind(json) ==
    IF not_null(json, POLICY_ATT) THEN KIND_LEAF
    ELSE IF is_array(json, POLICY_OR) THEN POLICY_OR
    ELSE IF is_array(json, POLICY_AND) THEN POLICY_AND
    ELSE KIND_NONE
calc_coefficients_kind(json) ==
    IF not_null(json, POLICY_ATT) THEN KIND_LEAF
    ELSE IF is_array(json, POLICY_AND) THEN POLICY_AND
    ELSE IF is_array(json, POLICY_OR) THEN POLICY_OR
    ELSE KIND_NONE
required_attributes_kind(json) ==
    IF IsNull(json) THEN KIND_NONE
    ELSE IF is_array(json, POLICY_OR) THEN POLICY_OR
    ELSE IF is_array(json, POLICY_AND) THEN POLICY_AND
    ELSE IF not_null(json, POLICY_ATT) THEN KIND_LEAF
    ELSE KIND_NONE

RECURSIVE secret_loop(_, _, _)
\* the sum of _coeff[_i].1 * _shares[_i] from index i on
secret_loop(shs, coeff, i) ==
    IF i > Len(shs) THEN 0
    ELSE FrAdd(FrMul(coeff[i].val, shs[i]), secret_loop(shs, coeff, i + 1))

\* recover_secret: panics on an unparseable policy and on more shares than leaves
recover_secret(shs, text) ==
    LET coeff == calc_coefficients_str(text) IN
    IF ~IsSome(coeff) THEN Panic
    ELSE IF Len(shs) > Len(coeff.val) THEN Panic
    ELSE Some(secret_loop(shs, coeff.val, 1))

\* Iterator::find on a table of named entries: the first entry of that name
find(table, name) ==
    IF \E i \in 1 .. Len(table) : table[i].name = name
    THEN Some(table[CHOOSE i \in 1 .. Len(table) :
                       /\ table[i].name = name
                       /\ \A j \in 1 .. (i - 1) : table[j].name # name])
    ELSE None

RECURSIVE z_sum(_, _, _, _)
\* the inner loop of decrypt over the coefficient tuples, in the exponent: the
\* sum of z.val * share over the tuples z of the given name
z_sum(z, name, share, i) ==
    IF i > Len(z) THEN 0
    ELSE FrAdd(IF z[i].name = name THEN FrMul(z[i].val, share) ELSE 0,
               z_sum(z, name, share, i + 1))

RECURSIVE recover_by_name(_, _, _, _)
\* the outer loop of decrypt over the pruned names j, in the exponent: the share
\* of j is the first share of that name
recover_by_name(list, shs, z, i) ==
    IF i > Len(list) THEN Some(0)
    ELSE LET c == find(shs, list[i])
             rest == recover_by_name(list, shs, z, i + 1) IN
         IF ~IsSome(c) \/ ~IsSome(rest) THEN Panic
         ELSE Some(FrAdd(z_sum(z, list[i], c.val.val, 1), rest.val))

-----------------------------------------------------------------------------
(* bn::G1, bn::G2, bn::Gt and the pairing, by discrete logarithm *)

\* G1 + G1, G2 + G2
GAdd(a, b) == FrAdd(a, b)
\* G1 * Fr, G2 * Fr
GMul(g, k) == FrMul(g, k)
GtOne == 0
\* Gt * Gt
GtMul(a, b) == FrAdd(a, b)
GtPow(a, k) == FrMul(a, k)
GtInverse(a) == FrNeg(a)
pairing(a, b) == FrMul(a, b)

\* the scalar the attribute hash derives from a name
hash_fr(name) == CASE name = "A" -> 1 [] name = "B" -> 2 [] OTHER -> 3
\* utils::hash::blake2b_hash_g2: the generator times the hash of the name
blake2b_hash_g2(g, name) == GMul(g, hash_fr(name))

\* utils::aes::encrypt_symmetric: an authenticated cipher keyed by the GT element
encrypt_symmetric(msg, data) == Some([key |-> msg, data |-> data])
\* utils::aes::decrypt_symmetric: opens under the sealing key only
decrypt_symmetric(msg, blob) == IF blob.key = msg THEN Some(blob.data) ELSE None

\* utils::tools::is_subset
is_subset(subset, attr) == \A i \in 1 .. Len(subset) : contains(attr, subset[i])

\* utils::tools::traverse_str: the pre-check of decrypt, by the pruning pass
traverse_str(attr, text) ==
    LET p == calc_pruned_str(attr, text) IN
    IF p = Panic THEN Panic ELSE Some(IsSome(p) /\ p.val.match)

-----------------------------------------------------------------------------
(* The scheme.  The random draws of an operation are its last parameters. *)

\* setup with the generators g, gp and the scalars beta, alpha it drew
setup(g, gp, beta, alpha) ==
    LET binv == FrInverse(beta) IN
    IF ~IsSome(binv) THEN Panic
    ELSE Some([pk |-> [g1 |-> g, g2 |-> gp,
                       h |-> GMul(g, beta),
                       f |-> GMul(gp, binv.val),
                       e_gg_alpha |-> pairing(g, GMul(gp, alpha))],
               msk |-> [beta |-> beta, g2_alpha |-> GMul(gp, alpha)]])

keygen_resampled(_pk, _msk, attributes, r, rj) ==
    IF Len(attributes) = 0 THEN None
    ELSE LET g_r == GMul(_pk.g2, r) IN
         Some([d |-> GMul(GAdd(_msk.g2_alpha, g_r), FrInverse(_msk.beta).val),
               d_j |-> [j \in 1 .. Len(attributes) |->
                          [name |-> attributes[j],
                           g1 |-> GMul(_pk.g1, rj[j]),
                           g2 |-> GAdd(GMul(_pk.g2, rj[j]),
                                       GMul(blake2b_hash_g2(_pk.g2, attributes[j]), rj[j]))]]])

\* keygen with the scalar r and the per-attribute scalars rj it drew
keygen(_pk, _msk, attributes, r, rj) ==
    IF Len(attributes) = 0 THEN None
    ELSE LET g_r == GMul(_pk.g2, r)
             binv == FrInverse(_msk.beta) IN
         IF ~IsSome(binv) THEN Panic
         ELSE Some([d |-> GMul(GAdd(_msk.g2_alpha, g_r), binv.val),
                    d_j |-> [j \in 1 .. Len(attributes) |->
                               [name |-> attributes[j],
                                g1 |-> GMul(_pk.g1, rj[j]),
                                g2 |-> GAdd(g_r, GMul(blake2b_hash_g2(_pk.g2, attributes[j]), rj[j]))]]])

\* the attribute names of a key
str_attr(_sk) == [i \in 1 .. Len(_sk.d_j) |-> _sk.d_j[i].name]

\* delegate with the scalar r and the per-attribute scalars rj it drew
delegate(_pk, _sk, subset, r, rj) ==
    IF ~is_subset(subset, str_attr(_sk)) THEN None
    ELSE IF Len(subset) = 0 THEN None
    ELSE Some([d |-> GAdd(_sk.d, GMul(_pk.f, r)),
               d_j |-> [j \in 1 .. Len(subset) |->
                          LET d_j_val == find(_sk.d_j, subset[j]).val IN
                          [name |-> subset[j],
                           g1 |-> GAdd(d_j_val.g1, GMul(_pk.g1, rj[j])),
                           g2 |-> GAdd(GAdd(d_j_val.g2,
                                            GMul(blake2b_hash_g2(_pk.g2, subset[j]), rj[j])),
                                       GMul(_pk.g2, r))]]])

\* encrypt with the scalar s, the session element msg and the shares it drew
encrypt(_pk, text, data, s, msg, shs) ==
    IF Len(data) = 0 \/ text.kind = "empty" THEN None
    ELSE IF ~IsSome(shs) THEN Panic
    ELSE Some([policy |-> text,
               c |-> GMul(_pk.h, s),
               c_p |-> GtMul(GtPow(_pk.e_gg_alpha, s), msg),
               c_y |-> [j \in 1 .. Len(shs.val) |->
                          [name |-> shs.val[j].name,
                           g1 |-> GMul(_pk.g1, shs.val[j].val),
                           g2 |-> GMul(blake2b_hash_g2(_pk.g2, shs.val[j].name), shs.val[j].val)]],
               ct |-> encrypt_symmetric(msg, data).val])

RECURSIVE a_loop(_, _, _, _, _)
\* the loop of decrypt over the pruned names from index i on: the product _a
a_loop(list, c_y, d_j, z, i) ==
    IF i > Len(list) THEN Some(GtOne)
    ELSE LET c == find(c_y, list[i])
             d == find(d_j, list[i])
             rest == a_loop(list, c_y, d_j, z, i + 1) IN
         IF ~IsSome(c) \/ ~IsSome(d) \/ ~IsSome(rest) THEN Panic
         ELSE Some(GtMul(z_sum(z, list[i],
                               GtMul(pairing(c.val.g1, d.val.g2),
                                     GtInverse(pairing(d.val.g1, c.val.g2))), 1),
                         rest.val))

decrypt_msg_unchecked(_sk, _ct) ==
    LET x == calc_pruned_str(str_attr(_sk), _ct.policy)
        z == calc_coefficients_str(_ct.policy) IN
    IF ~IsSome(x) \/ ~IsSome(z) THEN Panic
    ELSE LET a == a_loop(x.val.list, _ct.c_y, _sk.d_j, z.val, 1) IN
         IF ~IsSome(a) THEN Panic
         ELSE Some(GtMul(_ct.c_p, GtInverse(GtMul(pairing(_ct.c, _sk.d), GtInverse(a.val)))))

\* the element _msg decrypt reconstructs, or None where decrypt returns early
decrypt_msg(_sk, _ct) ==
    LET t == traverse_str(str_attr(_sk), _ct.policy) IN
    IF t = Panic THEN Panic
    ELSE IF t.val = FALSE THEN None
    ELSE LET x == calc_pruned_str(str_attr(_sk), _ct.policy) IN
         IF x = Panic THEN Panic
         ELSE IF x = None THEN None
         ELSE IF ~x.val.match THEN None
         ELSE LET z == calc_coefficients_str(_ct.policy) IN
              IF ~IsSome(z) THEN Panic
              ELSE LET a == a_loop(x.val.list, _ct.c_y, _sk.d_j, z.val, 1) IN
                   IF ~IsSome(a) THEN Panic
                   ELSE Some(GtMul(_ct.c_p,
                                   GtInverse(GtMul(pairing(_ct.c, _sk.d), GtInverse(a.val)))))

decrypt(_sk, _ct) ==
    LET m == decrypt_msg(_sk, _ct) IN
    IF ~IsSome(m) THEN m ELSE decrypt_symmetric(m.val, _ct.ct)

-----------------------------------------------------------------------------
(* Policies as the specification reads them *)

RECURSIVE WellFormed(_)
\* LEAF(name), AND(children >= 2), OR(children >= 2)
WellFormed(json) ==
    IF IsNull(json) THEN FALSE
    ELSE IF DOMAIN json = {POLICY_ATT} THEN json[POLICY_ATT] \in Names
    ELSE /\ DOMAIN json \in {{POLICY_AND}, {POLICY_OR}}
         /\ LET c == json[CHOOSE k \in DOMAIN json : TRUE] IN
            Len(c) >= 2 /\ \A i \in 1 .. Len(c) : WellFormed(c[i])

WellFormedText(text) == text.kind = "json" /\ WellFormed(text.json)

Children(json) == json[CHOOSE k \in DOMAIN json : TRUE]
IsLeaf(json) == DOMAIN json = {POLICY_ATT}
IsOr(json) == DOMAIN json = {POLICY_OR}

RECURSIVE Holds(_, _)
\* the boolean value of a well-formed policy under the set S of names
Holds(S, json) ==
    IF IsLeaf(json) THEN json[POLICY_ATT] \in S
    ELSE IF IsOr(json) THEN \E i \in 1 .. Len(Children(json)) : Holds(S, Children(json)[i])
    ELSE \A i \in 1 .. Len(Children(json)) : Holds(S, Children(json)[i])

RECURSIVE Flatten(_)
Flatten(ss) == IF ss = <<>> THEN <<>> ELSE Head(ss) \o Flatten(Tail(ss))

RECURSIVE Selected(_, _)
\* the selected leaves of the reference recursion
Selected(S, json) ==
    IF ~Holds(S, json) THEN <<>>
    ELSE IF IsLeaf(json) THEN <<json[POLICY_ATT]>>
    ELSE IF IsOr(json) THEN
        LET first == CHOOSE i \in 1 .. Len(Children(json)) :
                         /\ Holds(S, Children(json)[i])
                         /\ \A j \in 1 .. (i - 1) : ~Holds(S, Children(json)[j])
        IN Selected(S, Children(json)[first])
    ELSE Flatten([i \in 1 .. Len(Children(json)) |-> Selected(S, Children(json)[i])])

Range(q) == {q[i] : i \in 1 .. Len(q)}

RECURSIVE LeafNames(_)
\* the leaf names of a well-formed policy, in tree order
LeafNames(json) ==
    IF IsLeaf(json) THEN <<json[POLICY_ATT]>>
    ELSE Flatten([i \in 1 .. Len(Children(json)) |-> LeafNames(Children(json)[i])])

DistinctLeaves(json) == Cardinality(Range(LeafNames(json))) = Len(LeafNames(json))

-----------------------------------------------------------------------------
(* Specification of the pruning pass: calc_pruned_str on every policy text  *)
(* of up to MaxNodes nodes and every attribute list                         *)

PolicyTexts(n, names) == {EmptyText, GarbageText} \cup {JsonText(t) : t \in Trees(n, names)}

\* no key, no ciphertext
NoScheme ==
    /\ attrs2 = Unset /\ plaintext = Unset
    /\ pk = Unset /\ msk = Unset /\ ct = Unset /\ sk = Unset /\ sk2 = Unset /\ skm = Unset
    /\ out = Unset /\ out2 = Unset

\* nothing shared
NoSharing ==
    /\ secret = 0 /\ _k = 0 /\ _n = 0
    /\ shares = Unset /\ coeffs = Unset /\ recovered = Unset

schemeVars == <<attrs2, plaintext, pk, msk, ct, sk, sk2, skm, out, out2>>
sharingVars == <<secret, _k, _n, shares, coeffs, recovered>>

InitPrune ==
    /\ stage = "input"
    /\ attrs \in AttrLists
    /\ policy \in PolicyTexts(MaxNodes, Names)
    /\ pruned = Unset
    /\ NoSharing
    /\ NoScheme

Prune ==
    /\ stage = "input"
    /\ pruned' = calc_pruned_str(attrs, policy)
    /\ stage' = "pruned"
    /\ UNCHANGED <<attrs, policy, sharingVars, schemeVars>>

NextPrune == Prune

SpecPrune == InitPrune /\ [][NextPrune]_vars

-----------------------------------------------------------------------------
(* Specification of the sharing engine: share a secret down a policy, compute  *)
(* the coefficients, prune under an attribute list and recombine                *)

InitShare ==
    /\ stage = "input"
    /\ attrs \in AttrLists
    /\ policy \in PolicyTexts(MaxShareNodes, Names)
    /\ secret \in Rand
    /\ _k = 0 /\ _n = 0
    /\ pruned = Unset /\ shares = Unset /\ coeffs = Unset /\ recovered = Unset
    /\ NoScheme

GenShares ==
    /\ stage = "input"
    /\ shares' \in gen_shares_str(secret, policy)
    /\ stage' = "shared"
    /\ UNCHANGED <<attrs, policy, pruned, secret, _k, _n, coeffs, recovered, schemeVars>>

CalcCoefficients ==
    /\ stage = "shared"
    /\ coeffs' = calc_coefficients_str(policy)
    /\ stage' = "coefficients"
    /\ UNCHANGED <<attrs, policy, pruned, secret, _k, _n, shares, recovered, schemeVars>>

PruneShared ==
    /\ stage = "coefficients"
    /\ pruned' = calc_pruned_str(attrs, policy)
    /\ stage' = "pruned"
    /\ UNCHANGED <<attrs, policy, secret, _k, _n, shares, coeffs, recovered, schemeVars>>

Recover ==
    /\ stage = "pruned"
    /\ IsSome(shares) /\ IsSome(coeffs) /\ IsSome(pruned)
    /\ pruned.val.match
    /\ recovered' = recover_by_name(pruned.val.list, shares.val, coeffs.val, 1)
    /\ stage' = "recovered"
    /\ UNCHANGED <<attrs, policy, pruned, secret, _k, _n, shares, coeffs, schemeVars>>

NextShare == GenShares \/ CalcCoefficients \/ PruneShared \/ Recover

SpecShare == InitShare /\ [][NextShare]_vars

-----------------------------------------------------------------------------
(* Specification of threshold sharing: gen_shares for a secret, a threshold _k *)
(* and a share count _n, then recover_secret on the shares at positions 1.._k  *)
(* under a flat policy                                                          *)

FlatLeaves == {q \in SeqsUpTo({[ATT |-> a] : a \in Names}, MaxN) : Len(q) >= 1}
FlatTexts == {JsonText([AND |-> q]) : q \in FlatLeaves}
                 \cup {JsonText([OR |-> q]) : q \in FlatLeaves}

InitThreshold ==
    /\ stage = "input"
    /\ secret \in Fr
    /\ _k \in 0 .. MaxN
    /\ _n \in 0 .. MaxN
    /\ attrs = <<>>
    /\ policy = EmptyText
    /\ pruned = Unset /\ shares = Unset /\ coeffs = Unset /\ recovered = Unset
    /\ NoScheme

GenSharesFlat ==
    /\ stage = "input"
    /\ shares' \in gen_shares(secret, _k, _n)
    /\ stage' = "shared"
    /\ UNCHANGED <<attrs, policy, pruned, secret, _k, _n, coeffs, recovered, schemeVars>>

RecoverSecret ==
    /\ stage = "shared"
    /\ Len(shares) > _k
    /\ \E text \in FlatTexts :
          /\ policy' = text
          /\ recovered' = recover_secret(SubSeq(shares, 2, _k + 1), text)
    /\ stage' = "recovered"
    /\ UNCHANGED <<attrs, pruned, secret, _k, _n, shares, coeffs, schemeVars>>

NextThreshold == GenSharesFlat \/ RecoverSecret

SpecThreshold == InitThreshold /\ [][NextThreshold]_vars

-----------------------------------------------------------------------------
(* Specification of the walkers on JSON objects that carry any of the keys     *)
(* ATT, AND, OR at once: the steps of the sharing engine from such a policy    *)

\* a key of an object is absent, or present with a value
Absent == <<>>
Present(v) == <<v>>
KidLists == {q \in SeqsUpTo({[ATT |-> a] : a \in Names}, MaxKids) : Len(q) >= 1}

\* the object with the key ATT unless att is Absent, and likewise AND and OR
Object(att, and, or) ==
    [key \in {k \in {POLICY_ATT, POLICY_AND, POLICY_OR} :
                  \/ k = POLICY_ATT /\ Len(att) = 1
                  \/ k = POLICY_AND /\ Len(and) = 1
                  \/ k = POLICY_OR /\ Len(or) = 1} |->
        CASE key = POLICY_ATT -> att[1]
          [] key = POLICY_AND -> and[1]
          [] key = POLICY_OR -> or[1]]

Objects ==
    {Object(att, and, or) : att \in {Present(a) : a \in Names} \cup {Absent},
                            and \in {Present(q) : q \in KidLists} \cup {Absent},
                            or \in {Present(q) : q \in KidLists} \cup {Absent}}
        \ {Object(Absent, Absent, Absent)}

InitWalk ==
    /\ stage = "input"
    /\ attrs \in AttrLists
    /\ policy \in {JsonText(o) : o \in Objects}
    /\ secret \in Rand
    /\ _k = 0 /\ _n = 0
    /\ pruned = Unset /\ shares = Unset /\ coeffs = Unset /\ recovered = Unset
    /\ NoScheme

SpecWalk == InitWalk /\ [][NextShare]_vars

-----------------------------------------------------------------------------
(* Specification of the scheme: setup, encrypt a payload under a policy, issue *)
(* a key for an attribute list, decrypt                                         *)

Payloads == {<<>>, <<100>>}
AbeAttrLists == SeqsUpTo(AbeNames, MaxAttrs)
GenRand == {x \in Fr : x <= MaxGenLog}

Init ==
    /\ stage = "start"
    /\ policy \in PolicyTexts(MaxAbeNodes, AbeNames)
    /\ plaintext \in Payloads
    /\ attrs \in AbeAttrLists
    /\ attrs2 = Unset
    /\ pruned = Unset /\ NoSharing
    /\ pk = Unset /\ msk = Unset /\ ct = Unset /\ sk = Unset /\ sk2 = Unset /\ skm = Unset
    /\ out = Unset /\ out2 = Unset

Setup ==
    /\ stage = "start"
    /\ \E g \in GenRand, gp \in GenRand, beta \in Rand, alpha \in Rand :
          LET res == setup(g, gp, beta, alpha) IN
          IF IsSome(res)
          THEN pk' = res.val.pk /\ msk' = res.val.msk /\ stage' = "setup"
          ELSE pk' = res /\ msk' = res /\ stage' = "halted"
    /\ UNCHANGED <<attrs, attrs2, plaintext, policy, pruned, sharingVars,
                   ct, sk, sk2, skm, out, out2>>

Encrypt ==
    /\ stage = "setup"
    /\ \E s \in Rand, x \in GenRand, y \in GenRand :
       \E shs \in gen_shares_str(s, policy) :
          ct' = encrypt(pk, policy, plaintext, s, pairing(x, y), shs)
    /\ stage' = "encrypted"
    /\ UNCHANGED <<attrs, attrs2, plaintext, policy, pruned, sharingVars,
                   pk, msk, sk, sk2, skm, out, out2>>

KeyGen ==
    /\ stage = "encrypted"
    /\ IsSome(ct)
    /\ \E r \in Rand, rj \in [1 .. Len(attrs) -> Rand] :
          sk' = keygen(pk, msk, attrs, r, rj)
    /\ stage' = "keyed"
    /\ UNCHANGED <<attrs, attrs2, plaintext, policy, pruned, sharingVars,
                   pk, msk, ct, sk2, skm, out, out2>>

Decrypt ==
    /\ stage = "keyed"
    /\ IsSome(sk)
    /\ out' = decrypt(sk.val, ct.val)
    /\ stage' = "decrypted"
    /\ UNCHANGED <<attrs, attrs2, plaintext, policy, pruned, sharingVars,
                   pk, msk, ct, sk, sk2, skm, out2>>

Next == Setup \/ Encrypt \/ KeyGen \/ Decrypt

Spec == Init /\ [][Next]_vars

-----------------------------------------------------------------------------
(* Specification of delegation: a key for attrs, a key delegated from it for   *)
(* the subset attrs2, and the delegated key's decryption of a ciphertext of a  *)
(* well-formed policy                                                           *)

WellFormedTexts == {t \in PolicyTexts(MaxAbeNodes, AbeNames) : WellFormedText(t)}
SubsetLists == SeqsUpTo(AbeNames, MaxSubset)

\* the lists that name no attribute twice
DistinctAttrLists == {a \in AbeAttrLists : Cardinality(Range(a)) = Len(a)}

InitDelegate ==
    /\ stage = "start"
    /\ policy \in WellFormedTexts
    /\ plaintext = <<100>>
    /\ attrs \in DistinctAttrLists
    /\ attrs2 = Unset
    /\ pruned = Unset /\ NoSharing
    /\ pk = Unset /\ msk = Unset /\ ct = Unset /\ sk = Unset /\ sk2 = Unset /\ skm = Unset
    /\ out = Unset /\ out2 = Unset

Delegate ==
    /\ stage = "keyed"
    /\ IsSome(sk)
    /\ \E subset \in SubsetLists :
       \E r \in Rand, rj \in [1 .. Len(subset) -> Rand] :
          /\ attrs2' = subset
          /\ sk2' = delegate(pk, sk.val, subset, r, rj)
    /\ stage' = "delegated"
    /\ UNCHANGED <<attrs, plaintext, policy, pruned, sharingVars,
                   pk, msk, ct, sk, skm, out, out2>>

DecryptDelegated ==
    /\ stage = "delegated"
    /\ IsSome(sk2)
    /\ out2' = decrypt(sk2.val, ct.val)
    /\ stage' = "decrypted"
    /\ UNCHANGED <<attrs, attrs2, plaintext, policy, pruned, sharingVars,
                   pk, msk, ct, sk, sk2, skm, out>>

NextDelegate == Setup \/ Encrypt \/ KeyGen \/ Delegate \/ DecryptDelegated

SpecDelegate == InitDelegate /\ [][NextDelegate]_vars

-----------------------------------------------------------------------------
(* Specification of collusion: two users whose lists attrs and attrs2 satisfy  *)
(* the policy only together assemble a key from the components of their keys   *)

InitCollusion ==
    /\ stage = "start"
    /\ policy \in WellFormedTexts
    /\ plaintext = <<100>>
    /\ attrs \in SubsetLists
    /\ attrs2 \in SubsetLists
    /\ ~Holds(Range(attrs), policy.json)
    /\ ~Holds(Range(attrs2), policy.json)
    /\ Holds(Range(attrs) \cup Range(attrs2), policy.json)
    /\ pruned = Unset /\ NoSharing
    /\ pk = Unset /\ msk = Unset /\ ct = Unset /\ sk = Unset /\ sk2 = Unset /\ skm = Unset
    /\ out = Unset /\ out2 = Unset

KeyGen2 ==
    /\ stage = "keyed"
    /\ IsSome(sk)
    /\ \E r \in Rand, rj \in [1 .. Len(attrs2) -> Rand] :
          sk2' = keygen(pk, msk, attrs2, r, rj)
    /\ stage' = "keyed2"
    /\ UNCHANGED <<attrs, attrs2, plaintext, policy, pruned, sharingVars,
                   pk, msk, ct, sk, skm, out, out2>>

\* D of one key, the per-attribute pairs of both keys: for a name both keys hold,
\* decrypt takes the pair that comes first in the table
Mix ==
    /\ stage = "keyed2"
    /\ IsSome(sk2)
    /\ \E d \in {sk.val.d, sk2.val.d},
          table \in {sk.val.d_j \o sk2.val.d_j, sk2.val.d_j \o sk.val.d_j} :
          skm' = [d |-> d, d_j |-> table]
    /\ stage' = "mixed"
    /\ UNCHANGED <<attrs, attrs2, plaintext, policy, pruned, sharingVars,
                   pk, msk, ct, sk, sk2, out, out2>>

DecryptMixed ==
    /\ stage = "mixed"
    /\ out2' = decrypt(skm, ct.val)
    /\ stage' = "decrypted"
    /\ UNCHANGED <<attrs, attrs2, plaintext, policy, pruned, sharingVars,
                   pk, msk, ct, sk, sk2, skm, out>>

NextCollusion == Setup \/ Encrypt \/ KeyGen \/ KeyGen2 \/ Mix \/ DecryptMixed

SpecCollusion == InitCollusion /\ [][NextCollusion]_vars

-----------------------------------------------------------------------------
(* Specification of a delegation chain: a key issued for attrs, then delegated *)
(* again and again; sk is the key at hand, attrs2 the subset it was last       *)
(* delegated for                                                                *)

ChainStages == <<"issued", "delegated1", "delegated2", "delegated3", "delegated4">>

InitChain ==
    /\ stage = "start"
    /\ policy = EmptyText
    /\ plaintext = <<>>
    /\ attrs \in AbeAttrLists
    /\ attrs2 = Unset
    /\ pruned = Unset /\ NoSharing
    /\ pk = Unset /\ msk = Unset /\ ct = Unset /\ sk = Unset /\ sk2 = Unset /\ skm = Unset
    /\ out = Unset /\ out2 = Unset

Issue ==
    /\ stage = "setup"
    /\ \E r \in Rand, rj \in [1 .. Len(attrs) -> Rand] :
          sk' = keygen(pk, msk, attrs, r, rj)
    /\ stage' = ChainStages[1]
    /\ UNCHANGED <<attrs, attrs2, plaintext, policy, pruned, sharingVars,
                   pk, msk, ct, sk2, skm, out, out2>>

DelegateAgain ==
    /\ \E n \in 1 .. MaxDelegations :
          /\ stage = ChainStages[n]
          /\ stage' = ChainStages[n + 1]
    /\ IsSome(sk)
    /\ \E subset \in SubsetLists :
       \E r \in Rand, rj \in [1 .. Len(subset) -> Rand] :
          /\ attrs2' = subset
          /\ sk' = delegate(pk, sk.val, subset, r, rj)
    /\ UNCHANGED <<attrs, plaintext, policy, pruned, sharingVars,
                   pk, msk, ct, sk2, skm, out, out2>>

NextChain == Setup \/ Issue \/ DelegateAgain

SpecChain == InitChain /\ [][NextChain]_vars

-----------------------------------------------------------------------------
(* Claims about the pruning pass *)

PrunedWellFormed == stage = "pruned" /\ WellFormedText(policy)
PrunedSatisfied == PrunedWellFormed /\ Holds(Range(attrs), policy.json)

\* C6: on a well-formed policy prune returns the satisfied flag and the selected
\* leaves of the reference recursion (leaf: membership; OR: the first satisfied
\* child only; AND: all children, nothing when one fails).
C6_PruneFollowsReference ==
    PrunedWellFormed =>
        pruned = Some([match |-> Holds(Range(attrs), policy.json),
                       list |-> Selected(Range(attrs), policy.json)])

\* an OR whose first child fails and whose second child is a satisfied AND
C6_Witness ==
    /\ PrunedSatisfied
    /\ IsOr(policy.json)
    /\ ~Holds(Range(attrs), policy.json[POLICY_OR][1])
    /\ Len(pruned.val.list) >= 2

\* C7: for a satisfying (A, P) every selected name is in A and the selected list
\* is not empty.
C7_SelectedWithinAttrs ==
    PrunedSatisfied =>
        /\ IsSome(pruned) /\ pruned.val.match
        /\ pruned.val.list # <<>>
        /\ \A i \in 1 .. Len(pruned.val.list) : contains(attrs, pruned.val.list[i])

\* a satisfied policy under a list holding a name the policy does not select
C7_Witness ==
    /\ PrunedSatisfied
    /\ Len(pruned.val.list) >= 2
    /\ Range(attrs) # Range(pruned.val.list)

SelectedSatisfies == Holds(Range(pruned.val.list), policy.json)
NoProperSubsetSatisfies ==
    \A T \in SUBSET Range(pruned.val.list) :
        T # Range(pruned.val.list) => ~Holds(T, policy.json)

\* C8 as claimed: the selected names are a minimal satisfying set, also when a
\* name is repeated on several leaves.
C8_SelectedIsMinimal ==
    PrunedSatisfied => (SelectedSatisfies /\ NoProperSubsetSatisfies)

\* C8 amended: the selected names satisfy the policy, and no proper subset of
\* them does when no name is on more than one leaf.
C8_SelectedSatisfiesAndMinimalIfDistinct ==
    PrunedSatisfied =>
        /\ IsSome(pruned)
        /\ SelectedSatisfies
        /\ DistinctLeaves(policy.json) => NoProperSubsetSatisfies

\* a satisfied policy of distinct leaf names in which an OR had two satisfied children
C8_Witness ==
    /\ PrunedSatisfied
    /\ DistinctLeaves(policy.json)
    /\ IsOr(policy.json)
    /\ Cardinality({i \in 1 .. Len(policy.json[POLICY_OR]) :
                        Holds(Range(attrs), policy.json[POLICY_OR][i])}) >= 2

RECURSIVE HasShortInner(_)
\* some AND or OR node of the tree has fewer than two children
HasShortInner(json) ==
    \E k \in DOMAIN json \cap {POLICY_AND, POLICY_OR} :
        \/ Len(json[k]) < 2
        \/ \E i \in 1 .. Len(json[k]) : HasShortInner(json[k][i])

\* C9: prune returns None for every tree holding an AND or OR node of fewer than
\* two children, whatever the attribute list.
C9_MalformedRejected ==
    (stage = "pruned" /\ policy.kind = "json" /\ HasShortInner(policy.json))
        => pruned = None

-----------------------------------------------------------------------------
(* Claims about the scheme *)

\* the session element encrypt sampled, which keys the sealed payload
SessionElement == ct.val.ct.key

DecryptedWellFormed == stage = "decrypted" /\ WellFormedText(policy)

\* C1: for a key over a non-empty list A, a well-formed policy P that A satisfies
\* (names may repeat on leaves) and a non-empty payload m, decrypt returns m: the
\* element it reconstructs is the session element of the ciphertext.
C1_DecryptReturnsPayload ==
    (DecryptedWellFormed /\ Holds(Range(attrs), policy.json)) =>
        /\ decrypt_msg(sk.val, ct.val) = Some(SessionElement)
        /\ out = Some(plaintext)

\* C2: for a key over a list A that does not satisfy the policy P, decrypt
\* returns None.
C2_UnsatisfiedReturnsNone ==
    (DecryptedWellFormed /\ ~Holds(Range(attrs), policy.json)) => out = None

\* a key holding one of the two names of an AND, whose unchecked reconstruction
\* would have been the session element
C2_Witness ==
    /\ DecryptedWellFormed
    /\ ~Holds(Range(attrs), policy.json)
    /\ \E i \in 1 .. Len(attrs) : attrs[i] \in Range(LeafNames(policy.json))
    /\ decrypt_msg_unchecked(sk.val, ct.val) = Some(SessionElement)
    /\ out = None

\* C10: encrypt returns None for an empty payload, an empty policy or a policy
\* that is not a well-formed tree, and otherwise a ciphertext with one per-leaf
\* entry for every leaf of the policy.
C10_EncryptValidatesInput ==
    ct # Unset =>
        IF Len(plaintext) > 0 /\ WellFormedText(policy)
        THEN IsSome(ct) /\ Len(ct.val.c_y) = Len(LeafNames(policy.json))
        ELSE ct = None

\* decryption on the policies that put no name on two leaves
DecryptReturnsPayloadDistinct ==
    (DecryptedWellFormed /\ DistinctLeaves(policy.json)
        /\ Holds(Range(attrs), policy.json))
        => (decrypt_msg(sk.val, ct.val) = Some(SessionElement) /\ out = Some(plaintext))

DelegatedDecrypted == stage = "decrypted" /\ out2 # Unset /\ skm = Unset

\* decrypt under every key that keygen may issue for the list attrs2 gives res
FreshKeysGive(res) ==
    \A r \in Rand, rj \in [1 .. Len(attrs2) -> Rand] :
        decrypt(keygen(pk, msk, attrs2, r, rj).val, ct.val) = res

\* C4: a key delegated for a non-empty subset A' of A decrypts a ciphertext to
\* what a key issued for A' decrypts it to; it decrypts to m when A' satisfies P.
C4_DelegationEquivalence ==
    DelegatedDecrypted =>
        /\ FreshKeysGive(out2)
        /\ Holds(Range(attrs2), policy.json) => out2 = Some(plaintext)

\* delegation on the policies that put no name on two leaves
DelegationEquivalenceDistinct ==
    (DelegatedDecrypted /\ DistinctLeaves(policy.json)) =>
        /\ FreshKeysGive(out2)
        /\ Holds(Range(attrs2), policy.json) => out2 = Some(plaintext)

MixedDecrypted == stage = "decrypted" /\ skm # Unset

\* the element g2^r a key is blinded with: D^beta / g2^alpha
KeyBlind(_sk) == GAdd(GMul(_sk.d, msk.beta), FrNeg(msk.g2_alpha))

\* the key whose D the assembled key does not carry
ForeignKey == IF skm.d = sk.val.d THEN sk2.val ELSE sk.val

\* the element g1^(sum of coefficient * share) decrypt's matching combines over
\* the selected leaves whose pair comes from the foreign key
ForeignCombined ==
    LET x == calc_pruned_str(str_attr(skm), policy).val.list
        z == calc_coefficients_str(policy).val
        foreign == Range(str_attr(ForeignKey))
        IsForeign(n) == n \in foreign
        c_g1 == [j \in 1 .. Len(ct.val.c_y) |->
                    [name |-> ct.val.c_y[j].name, val |-> ct.val.c_y[j].g1]]
    IN recover_by_name(SelectSeq(x, IsForeign), c_g1, z, 1).val

C11_SetupNonZero ==
    /\ stage # "halted"
    /\ pk # Unset =>
          /\ msk.beta # 0
          /\ pk.g2 # 0 => msk.g2_alpha # 0

\* the names of a key's attribute table are pairwise distinct
DistinctNames(_sk) == Cardinality(Range(str_attr(_sk))) = Len(_sk.d_j)

\* C12: in every key keygen or delegate returns, the names of the attribute
\* table are pairwise distinct, also when the input list repeats a name.
C12_KeyNamesDistinct ==
    /\ IsSome(sk) => DistinctNames(sk.val)
    /\ (IsSome(sk2) /\ stage = "delegated") => DistinctNames(sk2.val)

InChain == \E n \in 1 .. MaxDelegations + 1 : stage = ChainStages[n]

\* the key is D = (g2^alpha * g2^r)^(1/beta), D'_j = g1^rj[j],
\* D_j = g2^r * H(name_j)^rj[j]
WellFormedWith(_sk, r, rj) ==
    /\ GMul(_sk.d, msk.beta) = GAdd(msk.g2_alpha, GMul(pk.g2, r))
    /\ \A j \in 1 .. Len(_sk.d_j) :
          /\ _sk.d_j[j].g1 = GMul(pk.g1, rj[j])
          /\ _sk.d_j[j].g2 = GAdd(GMul(pk.g2, r),
                                  GMul(blake2b_hash_g2(pk.g2, _sk.d_j[j].name), rj[j]))

\* the position of the first entry of the table that carries the name
FirstIndex(table, name) ==
    CHOOSE i \in 1 .. Len(table) :
        table[i].name = name /\ \A k \in 1 .. i - 1 : table[k].name # name

\* every delegate step maps the scalars (r, rj) of the key at hand to
\* (r + r2, rj + rj2) for the scalars r2, rj2 it drew
DelegateAddsScalars ==
    \A r \in Fr, rj \in [1 .. Len(sk.val.d_j) -> Fr] :
        WellFormedWith(sk.val, r, rj) =>
            \A subset \in SubsetLists :
            \A r2 \in Rand, rj2 \in [1 .. Len(subset) -> Rand] :
                LET k == delegate(pk, sk.val, subset, r2, rj2) IN
                IsSome(k) =>
                    WellFormedWith(k.val, FrAdd(r, r2),
                        [j \in 1 .. Len(subset) |->
                            FrAdd(rj[FirstIndex(sk.val.d_j, subset[j])], rj2[j])])

\* C14: every key of a chain keygen, delegate, delegate, ... is well-formed for
\* one scalar r shared by D and every D_j, and a delegate step adds the scalars
\* it drew to those of the key it is given.
C14_ChainKeyWellFormed ==
    (InChain /\ IsSome(sk)) =>
        /\ \E r \in Fr, rj \in [1 .. Len(sk.val.d_j) -> Fr] : WellFormedWith(sk.val, r, rj)
        /\ DelegateAddsScalars

\* a key delegated from a delegated key, under generators that are not the
\* identity, blinded with a g2^r that is not the identity
C14_Witness ==
    /\ stage = ChainStages[3]
    /\ IsSome(sk)
    /\ pk.g1 # 0 /\ pk.g2 # 0
    /\ KeyBlind(sk.val) # 0
    /\ Len(attrs) = 2

-----------------------------------------------------------------------------
(* Claims about the sharing engine *)

\* the names of a list of (name, value) entries
EntryNames(list) == [i \in 1 .. Len(list) |-> list[i].name]

\* C15: the three walkers take the same branch (leaf, AND, OR) at every node,
\* also at a node carrying several of the keys ATT, AND, OR, and so
\* gen_shares_json and calc_coefficients emit the same sequence of leaf names.
C15_WalkersAgree ==
    (stage \in {"coefficients", "pruned", "recovered"} /\ policy.kind = "json") =>
        /\ gen_shares_kind(policy.json) = calc_coefficients_kind(policy.json)
        /\ gen_shares_kind(policy.json) = required_attributes_kind(policy.json)
        /\ (IsSome(shares) /\ IsSome(coeffs)) =>
               EntryNames(shares.val) = EntryNames(coeffs.val)

RECURSIVE Horner(_, _, _)
\* a[i] + x * (a[i + 1] + x * ( ... )), the value at x of the polynomial of
\* coefficients a
Horner(a, x, i) ==
    IF i > Len(a) THEN 0 ELSE (a[i] + x * Horner(a, x, i + 1)) % FrOrder

\* the policy at hand is the flat policy matching the threshold: an AND of _k
\* leaves, or an OR when _k = 1
MatchingFlat ==
    \/ DOMAIN policy.json = {POLICY_AND} /\ Len(policy.json[POLICY_AND]) = _k
    \/ DOMAIN policy.json = {POLICY_OR} /\ _k = 1

\* C13: for 1 <= _k <= _n gen_shares returns _n + 1 values p(0), ..., p(_n) of
\* one polynomial p of degree at most _k - 1 with p(0) the secret, and
\* recover_secret on the values at 1 .. _k under the matching flat policy
\* returns the secret.
C13_ThresholdShares ==
    (stage \in {"shared", "recovered"} /\ 1 <= _k /\ _k <= _n) =>
        /\ Len(shares) = _n + 1
        /\ shares[1] = secret
        /\ \E a \in [1 .. _k -> Fr] :
              /\ a[1] = secret
              /\ \A i \in 0 .. _n : shares[i + 1] = Horner(a, i, 1)
        /\ (stage = "recovered" /\ MatchingFlat) => recovered = Some(secret)

\* two of three shares of a line that is not constant, recombined under an AND
\* of two leaves
C13_Witness ==
    /\ stage = "recovered"
    /\ _k = 2 /\ _n = 3
    /\ MatchingFlat
    /\ shares[2] # shares[1]
    /\ secret # 0
    /\ recovered = Some(secret)

\* C3: for a well-formed policy (leaf names may repeat), a satisfying attribute
\* list and a secret s, the sum over the selected leaves of coefficient * share,
\* matched by leaf name as decrypt matches them, is s.
C3_SharingRoundTrip ==
    (stage = "recovered" /\ WellFormedText(policy) /\ Holds(Range(attrs), policy.json))
        => recovered = Some(secret)

\* the round trip on policies that put no name on two leaves
SharingRoundTripDistinct ==
    (stage = "recovered" /\ WellFormedText(policy) /\ DistinctLeaves(policy.json))
        => recovered = Some(secret)

====
